---- MODULE Spec2Model ----
(***************************************************************************)
(* Heap data estimator (crate `datasize`, src/datasize/src/lib.rs).        *)
(*                                                                         *)
(* A type is a term: a kind `k`, a number `n` (array length, size of the   *)
(* boxed or stored primitive, index of the overridden field), the name `w` *)
(* of an override function and the component types `a`.  A value is a tag  *)
(* (enum discriminant, primitive value, vector capacity) and the component *)
(* values `f`.  The three facets of the trait DataSize are operators over  *)
(* type terms and values; the state machine draws a typed value and calls  *)
(* the entry points on it.                                                 *)
(***************************************************************************)
EXTENDS Integers, Sequences, FiniteSets, TLC

VARIABLES
    ty,      \* the type T of the value under estimation
    val,     \* the value
    pc,      \* "ready", or the entry point that has returned
    result,  \* the usize the entry point returned
    log,     \* the estimator invocations the call made, in call order
    heap,    \* the shared allocations: reference-counted pointer -> pointee
    work,    \* the estimator calls of a running estimation still to be made
    acc,     \* the bytes a running estimation has counted so far
    tree     \* the MemUsageNode data_size_detailed returned (Size(0) before)

vars == <<ty, val, pc, result, log, heap, work, acc, tree>>

\* Bounds of the input domain.
MaxSize == 4       \* combinators and leaf positions of a type
MaxArrayLen == 2   \* N of [T; N]
MaxTupleLen == 3   \* parts of a tuple / fields of a struct
MaxVecCap == 1     \* capacity of a Vec
MaxPrim == 1       \* largest primitive value
MaxNodes == 3      \* shared allocations on the heap

----------------------------------------------------------------------------
\* Type terms and values.

Ty(k, n, w, a) == [k |-> k, n |-> n, w |-> w, a |-> a]
Val(tag, f) == [tag |-> tag, f |-> f]

Prim == Ty("prim", 0, "", <<>>)                 \* u8, u16, ..., bool, char, ()
BoxOf(sz) == Ty("box", sz, "", <<>>)            \* Box<u8> is BoxOf(1), Box<u16> is BoxOf(2)
VecOf(sz) == Ty("vec", sz, "", <<>>)            \* Vec<u16> is VecOf(2)
Tuple1(T0) == Ty("tuple1", 0, "", <<T0>>)       \* (T0,)
Tuple(parts) == Ty("tuple", 0, "", parts)       \* (T0, T1, ...)
Array(N, T) == Ty("array", N, "", <<T>>)        \* [T; N]
OptionOf(T) == Ty("option", 0, "", <<T>>)       \* Option<T>
ResultOf(T, E) == Ty("result", 0, "", <<T, E>>) \* Result<T, E>
RangeOf(T) == Ty("range", 0, "", <<T>>)         \* core::ops::Range<T>
RefTo(T) == Ty("ref", 0, "", <<T>>)             \* &T
RefMutTo(T) == Ty("refmut", 0, "", <<T>>)       \* &mut T
Foreign == Ty("foreign", 0, "", <<>>)           \* a type without an impl of DataSize
PhantomOf(T) == Ty("phantom", 0, "", <<T>>)     \* core::marker::PhantomData<T>
ArcT == Ty("arc", 0, "", <<>>)                  \* Arc<Node> and Rc<Node>
Variant(fields) == Ty("variant", 0, "", fields) \* one variant of an enum
EnumOf(variants) == Ty("enum", 0, "", variants) \* #[derive(DataSize)] enum
StructWith(i, fn, fields) == Ty("with", i, fn, fields)
                                                \* struct, field i #[data_size(with = fn)]

\* One estimator invocation: the function and the path of the value it was
\* invoked on (field indices from the root value).
Ev(fn, p) == [fn |-> fn, at |-> p]
\* What a call returns: the size, and the invocations it made.
Ret(sz, lg) == [sz |-> sz, log |-> lg]

----------------------------------------------------------------------------
\* The trait DataSize: IS_DYNAMIC, STATIC_HEAP_SIZE, estimate_heap_size, and
\* the entry point data_size.  estimate_heap_size(T, self, p) is the call
\* self.estimate_heap_size() on the value at path p.

RECURSIVE IS_DYNAMIC(_), STATIC_HEAP_SIZE(_)
RECURSIVE estimate_heap_size(_, _, _), data_size(_, _, _), SumParts(_, _, _, _)

\* The comparison of min inverted: the larger of the two.
min_Inverted(a, b) == <<a, b>>[(IF a < b THEN 1 ELSE 0) + 1]

\* pub const fn min: [a, b][(a > b) as usize]
min(a, b) == <<a, b>>[(IF a > b THEN 1 ELSE 0) + 1]

\* strip_plus!($(+ self.$n.estimate_heap_size())+), and iter().map(..).sum():
\* the estimates of parts i.. of `vs`, summed in order.
SumParts(ts, vs, p, i) ==
    IF i > Len(ts) THEN Ret(0, <<>>)
    ELSE LET h == estimate_heap_size(ts[i], vs[i], p \o <<i>>)
             r == SumParts(ts, vs, p, i + 1)
         IN  Ret(h.sz + r.sz, h.log \o r.log)

\* A primitive charged for one byte of its own.
Prim_estimate_heap_size_OneByte(self, p) == Ret(1, <<>>)

\* non_dynamic_const_heap_size!($ty, $sz) with $sz = 0
Prim_IS_DYNAMIC == FALSE
Prim_STATIC_HEAP_SIZE == 0
Prim_estimate_heap_size(self, p) == Ret(0, <<>>)

\* Box<T> over a primitive of size T.n: never dynamic, always T.n bytes.
Box_IS_DYNAMIC(T) == FALSE
Box_STATIC_HEAP_SIZE(T) == T.n
Box_estimate_heap_size(T, self, p) == Ret(T.n, <<>>)

\* Vec<T> over a primitive of size T.n: dynamic, capacity * size.
Vec_IS_DYNAMIC(T) == TRUE
Vec_STATIC_HEAP_SIZE(T) == 0
Vec_estimate_heap_size(T, self, p) == Ret(self.tag * T.n, <<>>)

\* A tuple taken to be dynamic when its first part is.
Tuple_IS_DYNAMIC_FirstOnly(T) == IS_DYNAMIC(T.a[1])

\* tuple_heap_size!
Tuple_IS_DYNAMIC(T) == \E i \in 1..Len(T.a) : IS_DYNAMIC(T.a[i])
RECURSIVE SumStatic(_, _)
SumStatic(ts, i) ==
    IF i > Len(ts) THEN 0 ELSE STATIC_HEAP_SIZE(ts[i]) + SumStatic(ts, i + 1)
Tuple_STATIC_HEAP_SIZE(T) == SumStatic(T.a, 1)
Tuple_estimate_heap_size(T, self, p) == SumParts(T.a, self.f, p, 1)

\* impl DataSize for (T0,)
Tuple1_IS_DYNAMIC(T) == IS_DYNAMIC(T.a[1])
Tuple1_STATIC_HEAP_SIZE(T) == STATIC_HEAP_SIZE(T.a[1])
Tuple1_estimate_heap_size(T, self, p) ==
    estimate_heap_size(T.a[1], self.f[1], p \o <<1>>)

\* An array summing over its elements whether or not T is dynamic.
Array_estimate_heap_size_AlwaysVisits(T, self, p) ==
    SumParts([i \in 1..T.n |-> T.a[1]], self.f, p, 1)

\* impl DataSize for [T; N]
Array_IS_DYNAMIC(T) == IS_DYNAMIC(T.a[1])
Array_STATIC_HEAP_SIZE(T) == STATIC_HEAP_SIZE(T.a[1]) * T.n
Array_estimate_heap_size(T, self, p) ==
    IF IS_DYNAMIC(T.a[1])
    THEN SumParts([i \in 1..T.n |-> T.a[1]], self.f, p, 1)
    ELSE Ret(STATIC_HEAP_SIZE(T.a[1]) * T.n, <<>>)

\* Option<T> taken to be dynamic only when T is.
Option_IS_DYNAMIC_OnlyT(T) == IS_DYNAMIC(T.a[1])

\* Some(val) charged the static size of T instead of the estimate of val.
Option_estimate_heap_size_Static(T, self, p) ==
    IF self.tag = 1 THEN Ret(STATIC_HEAP_SIZE(T.a[1]), <<>>) ELSE Ret(0, <<>>)

\* impl DataSize for Option<T>: tag 0 is None, tag 1 is Some(val)
Option_IS_DYNAMIC(T) == IS_DYNAMIC(T.a[1]) \/ STATIC_HEAP_SIZE(T.a[1]) > 0
Option_STATIC_HEAP_SIZE(T) == 0
Option_estimate_heap_size(T, self, p) ==
    IF self.tag = 1 THEN data_size(T.a[1], self.f[1], p \o <<1>>)
    ELSE Ret(0, <<>>)

\* Result<T, E> sized by its Ok payload whichever branch is active.
Result_estimate_heap_size_OkOnly(T, self, p) ==
    data_size(T.a[1], self.f[1], p \o <<1>>)

\* impl DataSize for Result<T, E>: tag 0 is Ok(val), tag 1 is Err(err)
Result_IS_DYNAMIC(T) ==
    \/ IS_DYNAMIC(T.a[1])
    \/ IS_DYNAMIC(T.a[2])
    \/ STATIC_HEAP_SIZE(T.a[1]) # STATIC_HEAP_SIZE(T.a[2])
Result_STATIC_HEAP_SIZE(T) ==
    min(STATIC_HEAP_SIZE(T.a[1]), STATIC_HEAP_SIZE(T.a[2]))
Result_estimate_heap_size(T, self, p) ==
    IF self.tag = 0 THEN data_size(T.a[1], self.f[1], p \o <<1>>)
    ELSE data_size(T.a[2], self.f[1], p \o <<2>>)

\* impl DataSize for core::ops::Range<T>: f[1] is start, f[2] is end
Range_IS_DYNAMIC(T) == IS_DYNAMIC(T.a[1])
Range_STATIC_HEAP_SIZE(T) == 2 * STATIC_HEAP_SIZE(T.a[1])
Range_estimate_heap_size(T, self, p) ==
    LET s == estimate_heap_size(T.a[1], self.f[1], p \o <<1>>)
        e == estimate_heap_size(T.a[1], self.f[2], p \o <<2>>)
    IN  Ret(s.sz + e.sz, s.log \o e.log)

\* A reference sized like a Box: the referent's estimate, when it has one.
Ref_estimate_heap_size_Follows(T, self, p) ==
    IF T.a[1].k = "foreign" THEN Ret(0, <<>>)
    ELSE data_size(T.a[1], self.f[1], p \o <<1>>)

\* impl<T> DataSize for &T: f[1] is the referent, owned elsewhere
Ref_IS_DYNAMIC(T) == FALSE
Ref_STATIC_HEAP_SIZE(T) == 0
Ref_estimate_heap_size(T, self, p) == Ret(0, <<>>)

\* impl<T> DataSize for &mut T: f[1] is the referent, owned elsewhere
RefMut_IS_DYNAMIC(T) == FALSE
RefMut_STATIC_HEAP_SIZE(T) == 0
RefMut_estimate_heap_size(T, self, p) == Ret(0, <<>>)

\* impl<T> DataSize for core::marker::PhantomData<T>
Phantom_IS_DYNAMIC(T) == FALSE
Phantom_STATIC_HEAP_SIZE(T) == 0
Phantom_estimate_heap_size(T, self, p) == Ret(0, <<>>)

\* Arc<T> and Rc<T>: self.tag is the shared allocation pointed to.
Arc_IS_DYNAMIC(T) == FALSE
Arc_STATIC_HEAP_SIZE(T) == 0
Arc_estimate_heap_size(T, self, p) == Ret(0, <<>>)

\* The override functions of the crate's examples.
\* ds_for_field_b returns 1234; estimate_third_party_type returns len * 512.
WithFn(fn, self) ==
    IF fn = "ds_for_field_b" THEN 1234 ELSE self.tag * 512

\* Derived struct with field T.n overridden by #[data_size(with = T.w)].
With_IS_DYNAMIC(T) == TRUE
With_STATIC_HEAP_SIZE(T) == 0
RECURSIVE SumWith(_, _, _, _)
SumWith(T, vs, p, i) ==
    IF i > Len(T.a) THEN Ret(0, <<>>)
    ELSE LET h == IF i = T.n
                  THEN Ret(WithFn(T.w, vs[i]), <<Ev(T.w, p \o <<i>>)>>)
                  ELSE estimate_heap_size(T.a[i], vs[i], p \o <<i>>)
             r == SumWith(T, vs, p, i + 1)
         IN  Ret(h.sz + r.sz, h.log \o r.log)
With_estimate_heap_size(T, self, p) == SumWith(T, self.f, p, 1)

\* Derived enum: T.a are the variants, self.tag the active one.
Enum_IS_DYNAMIC(T) ==
    \E i \in 1..Len(T.a) : \E j \in 1..Len(T.a[i].a) : IS_DYNAMIC(T.a[i].a[j])
Enum_STATIC_HEAP_SIZE(T) == 0
Enum_estimate_heap_size(T, self, p) == SumParts(T.a[self.tag].a, self.f, p, 1)

\* const IS_DYNAMIC: bool
IS_DYNAMIC(T) ==
    CASE T.k = "prim" -> Prim_IS_DYNAMIC
      [] T.k = "box" -> Box_IS_DYNAMIC(T)
      [] T.k = "vec" -> Vec_IS_DYNAMIC(T)
      [] T.k = "tuple" -> Tuple_IS_DYNAMIC(T)
      [] T.k = "tuple1" -> Tuple1_IS_DYNAMIC(T)
      [] T.k = "array" -> Array_IS_DYNAMIC(T)
      [] T.k = "option" -> Option_IS_DYNAMIC(T)
      [] T.k = "result" -> Result_IS_DYNAMIC(T)
      [] T.k = "range" -> Range_IS_DYNAMIC(T)
      [] T.k = "ref" -> Ref_IS_DYNAMIC(T)
      [] T.k = "refmut" -> RefMut_IS_DYNAMIC(T)
      [] T.k = "phantom" -> Phantom_IS_DYNAMIC(T)
      [] T.k = "arc" -> Arc_IS_DYNAMIC(T)
      [] T.k = "with" -> With_IS_DYNAMIC(T)
      [] T.k = "enum" -> Enum_IS_DYNAMIC(T)

\* const STATIC_HEAP_SIZE: usize
STATIC_HEAP_SIZE(T) ==
    CASE T.k = "prim" -> Prim_STATIC_HEAP_SIZE
      [] T.k = "box" -> Box_STATIC_HEAP_SIZE(T)
      [] T.k = "vec" -> Vec_STATIC_HEAP_SIZE(T)
      [] T.k = "tuple" -> Tuple_STATIC_HEAP_SIZE(T)
      [] T.k = "tuple1" -> Tuple1_STATIC_HEAP_SIZE(T)
      [] T.k = "array" -> Array_STATIC_HEAP_SIZE(T)
      [] T.k = "option" -> Option_STATIC_HEAP_SIZE(T)
      [] T.k = "result" -> Result_STATIC_HEAP_SIZE(T)
      [] T.k = "range" -> Range_STATIC_HEAP_SIZE(T)
      [] T.k = "ref" -> Ref_STATIC_HEAP_SIZE(T)
      [] T.k = "refmut" -> RefMut_STATIC_HEAP_SIZE(T)
      [] T.k = "phantom" -> Phantom_STATIC_HEAP_SIZE(T)
      [] T.k = "arc" -> Arc_STATIC_HEAP_SIZE(T)
      [] T.k = "with" -> With_STATIC_HEAP_SIZE(T)
      [] T.k = "enum" -> Enum_STATIC_HEAP_SIZE(T)

\* fn estimate_heap_size(&self) -> usize: the impl of T, entered at path p.
estimate_heap_size(T, self, p) ==
    LET r == CASE T.k = "prim" -> Prim_estimate_heap_size(self, p)
               [] T.k = "box" -> Box_estimate_heap_size(T, self, p)
               [] T.k = "vec" -> Vec_estimate_heap_size(T, self, p)
               [] T.k = "tuple" -> Tuple_estimate_heap_size(T, self, p)
               [] T.k = "tuple1" -> Tuple1_estimate_heap_size(T, self, p)
               [] T.k = "array" -> Array_estimate_heap_size(T, self, p)
               [] T.k = "option" -> Option_estimate_heap_size(T, self, p)
               [] T.k = "result" -> Result_estimate_heap_size(T, self, p)
               [] T.k = "range" -> Range_estimate_heap_size(T, self, p)
               [] T.k = "ref" -> Ref_estimate_heap_size(T, self, p)
               [] T.k = "refmut" -> RefMut_estimate_heap_size(T, self, p)
               [] T.k = "phantom" -> Phantom_estimate_heap_size(T, self, p)
               [] T.k = "arc" -> Arc_estimate_heap_size(T, self, p)
               [] T.k = "with" -> With_estimate_heap_size(T, self, p)
               [] T.k = "enum" -> Enum_estimate_heap_size(T, self, p)
    IN  Ret(r.sz, <<Ev("estimate_heap_size", p)>> \o r.log)

\* pub fn data_size<T: ?Sized>(value: &T) -> usize
data_size(T, value, p) == estimate_heap_size(T, value, p)

----------------------------------------------------------------------------
\* The detailed report (feature "detailed").

\* enum MemUsageNode { Size(usize), Detailed(HashMap<&'static str, MemUsageNode>) }
\* The members of a Detailed node are kept in field order, the position
\* standing for the field's name.
Size(sz) == [detailed |-> FALSE, size |-> sz, members |-> <<>>]
Detailed(members) == [detailed |-> TRUE, size |-> 0, members |-> members]

\* MemUsageNode::total
RECURSIVE total(_), SumTotal(_, _)
SumTotal(members, i) ==
    IF i > Len(members) THEN 0 ELSE total(members[i]) + SumTotal(members, i + 1)
total(self) ==
    IF self.detailed THEN SumTotal(self.members, 1) ELSE self.size

RECURSIVE estimate_detailed_heap_size(_, _)

\* A leaf holding the static size of the type instead of the estimate.
Default_estimate_detailed_heap_size_Static(T, self) == Size(STATIC_HEAP_SIZE(T))

\* DataSize::estimate_detailed_heap_size, the provided method: no impl of
\* lib.rs overrides it.
Default_estimate_detailed_heap_size(T, self) ==
    Size(estimate_heap_size(T, self, <<>>).sz)

\* Derived struct with an overridden field: one member per field, the
\* overridden one a leaf holding the override function's result.
With_estimate_detailed_heap_size(T, self) ==
    Detailed([i \in 1..Len(T.a) |->
                IF i = T.n THEN Size(WithFn(T.w, self.f[i]))
                ELSE estimate_detailed_heap_size(T.a[i], self.f[i])])

\* Derived enum: one member per field of the active variant.
Enum_estimate_detailed_heap_size(T, self) ==
    Detailed([i \in 1..Len(self.f) |->
                estimate_detailed_heap_size(T.a[self.tag].a[i], self.f[i])])

\* fn estimate_detailed_heap_size(&self) -> MemUsageNode
estimate_detailed_heap_size(T, self) ==
    CASE T.k = "with" -> With_estimate_detailed_heap_size(T, self)
      [] T.k = "enum" -> Enum_estimate_detailed_heap_size(T, self)
      [] OTHER -> Default_estimate_detailed_heap_size(T, self)

\* pub fn data_size_detailed<T: ?Sized>(value: &T) -> MemUsageNode
data_size_detailed(T, value) == estimate_detailed_heap_size(T, value)

----------------------------------------------------------------------------
\* The input domain: the types of size at most MaxSize, and all their values.
\* The size of a type counts its combinators and the leaf positions of its
\* values ([T; 0] counted as holding one T).

Leaves == {Prim, BoxOf(1), BoxOf(2), VecOf(2)}

\* The sequences of `len` types taken from the levels lv (lv[k]: the types of
\* size k) whose sizes add up to `sum`.
RECURSIVE TypeSeqs(_, _, _)
TypeSeqs(lv, sum, len) ==
    IF len = 0 THEN (IF sum = 0 THEN {<<>>} ELSE {})
    ELSE UNION {{<<x>> \o r : x \in lv[k], r \in TypeSeqs(lv, sum - k, len - 1)} :
                k \in 1..(IF sum < Len(lv) THEN sum ELSE Len(lv))}

\* The types of size n that lib.rs implements DataSize for, from the smaller ones.
LibLevel(lv, n) ==
    {Tuple1(x) : x \in lv[n - 1]}
    \cup {OptionOf(x) : x \in lv[n - 1]}
    \cup {RefTo(x) : x \in lv[n - 1]}
    \cup {PhantomOf(x) : x \in lv[n - 1]}
    \cup {Array(0, x) : x \in lv[n - 1]}
    \cup UNION {{Array(N, x) : x \in lv[(n - 1) \div N]} :
                N \in {M \in 1..MaxArrayLen : (n - 1) % M = 0}}
    \cup {RangeOf(x) : x \in UNION {lv[k] : k \in {j \in 1..(n - 1) : 2 * j = n - 1}}}
    \cup UNION {{Tuple(s) : s \in TypeSeqs(lv, n - 1, len)} : len \in 2..MaxTupleLen}
    \cup {ResultOf(s[1], s[2]) : s \in TypeSeqs(lv, n - 1, 2)}

RECURSIVE LibLevels(_, _)
LibLevels(lv, n) ==
    IF n > MaxSize THEN lv ELSE LibLevels(Append(lv, LibLevel(lv, n)), n + 1)

\* lv[k]: the lib.rs types of size k, over the leaf types.
Levels == LibLevels(<<Leaves>>, 2)

\* &mut T over the same referents as &T, and the references to and the marker
\* of a type without an impl of DataSize; these are not parts of other types.
RefTypes ==
    {RefMutTo(x) : x \in UNION {Levels[k] : k \in 1..(MaxSize - 1)}}
    \cup {RefTo(Foreign), RefMutTo(Foreign), PhantomOf(Foreign)}

LibTypes == UNION {Levels[k] : k \in 1..Len(Levels)} \cup RefTypes

\* Types derived by #[derive(DataSize)] over them: enums of one variant
\* with one or two fields and of two variants with one field each, and
\* structs with one field overridden.
DerivedTypes ==
    UNION {
        UNION {{EnumOf(<<Variant(s)>>) : s \in TypeSeqs(Levels, n - 1, len)} :
               len \in 1..2}
        \cup {EnumOf(<<Variant(<<s[1]>>), Variant(<<s[2]>>)>>) :
                s \in TypeSeqs(Levels, n - 1, 2)}
        \cup UNION {{StructWith(i, IF s[i].k = "vec"
                                   THEN "estimate_third_party_type"
                                   ELSE "ds_for_field_b", s) :
                       s \in TypeSeqs(Levels, n - 1, len), i \in 1..len} :
                    len \in 1..MaxTupleLen}
        : n \in 2..MaxSize}

AllTypes == LibTypes \cup DerivedTypes

RECURSIVE Values(_), ValueSeqs(_)
ValueSeqs(ts) ==
    IF ts = <<>> THEN {<<>>}
    ELSE {<<x>> \o r : x \in Values(Head(ts)), r \in ValueSeqs(Tail(ts))}
Values(T) ==
    CASE T.k = "prim" -> {Val(x, <<>>) : x \in 0..MaxPrim}
      [] T.k = "box" -> {Val(0, <<>>)}
      [] T.k = "vec" -> {Val(c, <<>>) : c \in 0..MaxVecCap}
      [] T.k = "phantom" -> {Val(0, <<>>)}
      [] T.k = "foreign" -> {Val(h, <<>>) : h \in 0..MaxVecCap}
      [] T.k \in {"tuple", "tuple1", "with", "ref", "refmut"} ->
            {Val(0, s) : s \in ValueSeqs(T.a)}
      [] T.k = "array" ->
            {Val(0, s) : s \in ValueSeqs([i \in 1..T.n |-> T.a[1]])}
      [] T.k = "range" -> {Val(0, s) : s \in ValueSeqs(<<T.a[1], T.a[1]>>)}
      [] T.k = "option" ->
            {Val(0, <<>>)} \cup {Val(1, <<x>>) : x \in Values(T.a[1])}
      [] T.k = "result" ->
            {Val(0, <<x>>) : x \in Values(T.a[1])}
            \cup {Val(1, <<e>>) : e \in Values(T.a[2])}
      [] T.k = "enum" ->
            UNION {{Val(i, s) : s \in ValueSeqs(T.a[i].a)} : i \in 1..Len(T.a)}

----------------------------------------------------------------------------
\* The state machine: a typed value is given, and one entry point is called.

Init ==
    /\ ty \in AllTypes
    /\ val \in Values(ty)
    /\ pc = "ready"
    /\ result = 0
    /\ log = <<>>
    /\ heap = <<>>
    /\ work = <<>>
    /\ acc = 0
    /\ tree = Size(0)

\* value.estimate_heap_size()
CallEstimateHeapSize ==
    /\ pc = "ready"
    /\ LET r == estimate_heap_size(ty, val, <<>>)
       IN  /\ result' = r.sz
           /\ log' = r.log
    /\ pc' = "estimate_heap_size"
    /\ UNCHANGED <<ty, val, heap, work, acc, tree>>

\* data_size(&value)
CallDataSize ==
    /\ pc = "ready"
    /\ LET r == data_size(ty, val, <<>>)
       IN  /\ result' = r.sz
           /\ log' = r.log
    /\ pc' = "data_size"
    /\ UNCHANGED <<ty, val, heap, work, acc, tree>>

\* data_size_detailed(&value)
CallDataSizeDetailed ==
    /\ pc = "ready"
    /\ tree' = data_size_detailed(ty, val)
    /\ pc' = "data_size_detailed"
    /\ UNCHANGED <<ty, val, result, log, heap, work, acc>>

\* node.total() on the report returned
CallTotal ==
    /\ pc = "data_size_detailed"
    /\ result' = total(tree)
    /\ pc' = "total"
    /\ UNCHANGED <<ty, val, log, heap, work, acc, tree>>

Next == CallEstimateHeapSize \/ CallDataSize \/ CallDataSizeDetailed \/ CallTotal

Spec == Init /\ [][Next]_vars

----------------------------------------------------------------------------
\* Estimation over shared ownership, call by call.  The heap holds MaxNodes
\* allocations of
\*     struct Node { data: Box<u16>, next: RefCell<Option<Rc<Node>>> }
\* each pointing to any node or to none, so that reference cycles exist.
\* `work` is the call stack of the recursion of estimate_heap_size: a step
\* makes the pending call on top, counts what that impl charges itself and
\* pushes the calls it makes on its parts.

NodeT == Tuple(<<BoxOf(2), OptionOf(ArcT)>>)

Item(T, v) == [T |-> T, v |-> v]

\* The values of the types over Arc; an Arc points to any allocation.
RECURSIVE SharedValues(_), SharedValueSeqs(_)
SharedValueSeqs(ts) ==
    IF ts = <<>> THEN {<<>>}
    ELSE {<<x>> \o r : x \in SharedValues(Head(ts)), r \in SharedValueSeqs(Tail(ts))}
SharedValues(T) ==
    CASE T.k = "arc" -> {Val(q, <<>>) : q \in 1..MaxNodes}
      [] T.k = "box" -> {Val(0, <<>>)}
      [] T.k = "option" ->
            {Val(0, <<>>)} \cup {Val(1, <<x>>) : x \in SharedValues(T.a[1])}
      [] T.k \in {"tuple", "tuple1"} -> {Val(0, s) : s \in SharedValueSeqs(T.a)}

\* The pointee handed on: an Arc/Rc sized like a Box of its pointee.
Arc_Pointee_Traversed(self) == <<Item(NodeT, heap[self.tag])>>

\* The pointee an Arc/Rc hands to the estimator of T: none, it is not
\* traversed.
Arc_Pointee(self) == <<>>

\* What the impl of T charges for the value itself, its parts aside.
Charged(T, self) ==
    CASE T.k = "box" -> Box_estimate_heap_size(T, self, <<>>).sz
      [] T.k = "arc" -> Arc_estimate_heap_size(T, self, <<>>).sz
      [] T.k \in {"option", "tuple", "tuple1"} -> 0

\* The calls the impl of T makes on the parts of the value, in order.
Calls(T, self) ==
    CASE T.k = "box" -> <<>>
      [] T.k = "arc" -> Arc_Pointee(self)
      [] T.k = "option" ->
            IF self.tag = 1 THEN <<Item(T.a[1], self.f[1])>> ELSE <<>>
      [] T.k \in {"tuple", "tuple1"} ->
            [i \in 1..Len(T.a) |-> Item(T.a[i], self.f[i])]

InitShared ==
    /\ heap \in [1..MaxNodes -> SharedValues(NodeT)]
    /\ ty \in {ArcT, OptionOf(ArcT), Tuple1(ArcT), NodeT}
    /\ val \in SharedValues(ty)
    /\ pc = "ready"
    /\ result = 0
    /\ log = <<>>
    /\ work = <<>>
    /\ acc = 0
    /\ tree = Size(0)

\* value.estimate_heap_size() is entered.
Enter ==
    /\ pc = "ready"
    /\ work' = <<Item(ty, val)>>
    /\ acc' = 0
    /\ pc' = "running"
    /\ UNCHANGED <<ty, val, result, log, heap, tree>>

\* The pending call on top of the stack is made.
Step ==
    /\ pc = "running"
    /\ work # <<>>
    /\ LET it == Head(work)
       IN  /\ acc' = acc + Charged(it.T, it.v)
           /\ work' = Calls(it.T, it.v) \o Tail(work)
           /\ log' = IF it.T.k = "arc" /\ Calls(it.T, it.v) # <<>>
                     THEN Append(log, Ev("deref", <<it.v.tag>>))
                     ELSE log
    /\ UNCHANGED <<ty, val, pc, result, heap, tree>>

\* The outermost call returns.
Return ==
    /\ pc = "running"
    /\ work = <<>>
    /\ result' = acc
    /\ pc' = "done"
    /\ UNCHANGED <<ty, val, log, heap, work, acc, tree>>

NextShared == Enter \/ Step \/ Return

\* A call of estimate_heap_size is synchronous and runs to completion.
SpecShared == InitShared /\ [][NextShared]_vars /\ WF_vars(NextShared)

----------------------------------------------------------------------------
\* The facet invariants of the trait (lib.rs, STATIC_HEAP_SIZE's contract).

\* C1: for every type built from the combinators of lib.rs over the leaf
\* types, a type that is not dynamic estimates every one of its values at
\* exactly STATIC_HEAP_SIZE.
C1_NonDynamicIsExact ==
    (pc = "estimate_heap_size" /\ ty \in LibTypes /\ ~IS_DYNAMIC(ty))
        => result = STATIC_HEAP_SIZE(ty)

\* A non-dynamic Result with heap on both branches has been estimated.
C1_Witness ==
    /\ pc = "estimate_heap_size"
    /\ ty.k = "result"
    /\ ~IS_DYNAMIC(ty)
    /\ STATIC_HEAP_SIZE(ty) > 0
    /\ result > 0

\* C2: for every such type that is dynamic, STATIC_HEAP_SIZE is a lower
\* bound of the estimate of every value, whichever branch of a Result is
\* active.
C2_StaticIsLowerBound ==
    (pc = "estimate_heap_size" /\ ty \in LibTypes /\ IS_DYNAMIC(ty))
        => result >= STATIC_HEAP_SIZE(ty)

\* A dynamic Result with a positive floor has been estimated on its Err
\* branch, above the floor.
C2_Witness ==
    /\ pc = "estimate_heap_size"
    /\ ty.k = "result"
    /\ IS_DYNAMIC(ty)
    /\ val.tag = 1
    /\ STATIC_HEAP_SIZE(ty) > 0
    /\ result > STATIC_HEAP_SIZE(ty)

\* C3: a derived sum type that is not dynamic estimates every one of its
\* values at exactly STATIC_HEAP_SIZE, whatever its payload types are.
C3_SumTypeNonDynamicIsExact ==
    (pc = "estimate_heap_size" /\ ty.k = "enum" /\ ~IS_DYNAMIC(ty))
        => result = STATIC_HEAP_SIZE(ty)

\* C4: the estimation of a shared-ownership wrapper terminates and returns
\* 0, reference cycles included, and never traverses a pointee; so the
\* estimation of every value holding such wrappers terminates.
C4_SharedOwnershipTerminatesAtZero ==
    /\ <>(pc = "done")
    /\ [](log = <<>>)
    /\ []((pc = "done" /\ ty.k = "arc") => result = 0)

\* The estimation of an Rc on a reference cycle of two nodes has returned 0.
C4_Witness ==
    /\ pc = "done"
    /\ ty.k = "arc"
    /\ result = 0
    /\ \E q \in 1..MaxNodes :
          /\ q # val.tag
          /\ heap[val.tag].f[2] = Val(1, <<Val(q, <<>>)>>)
          /\ heap[q].f[2] = Val(1, <<Val(val.tag, <<>>)>>)

----------------------------------------------------------------------------
\* The entry point data_size.

\* C5: data_size(v) returns T::STATIC_HEAP_SIZE when T is not dynamic, and
\* the result of T::estimate_heap_size(v) when it is.
C5_DataSizeChecksIsDynamic ==
    pc = "data_size"
        => result = IF IS_DYNAMIC(ty)
                    THEN estimate_heap_size(ty, val, <<>>).sz
                    ELSE STATIC_HEAP_SIZE(ty)

----------------------------------------------------------------------------
\* The combinators of lib.rs, one by one.  Sz(T, v) is the estimate a value
\* v of the component type T gets on its own.

Sz(T, v) == estimate_heap_size(T, v, <<>>).sz

C7_OptionLaw ==
    ty.k = "option" =>
        LET T == ty.a[1]
        IN  /\ IS_DYNAMIC(ty) <=> (IS_DYNAMIC(T) \/ STATIC_HEAP_SIZE(T) > 0)
            /\ STATIC_HEAP_SIZE(ty) = 0
            /\ pc = "estimate_heap_size"
                  => result = IF val.tag = 0 THEN 0 ELSE Sz(T, val.f[1])

\* A Some whose payload owns heap has been estimated.
C7_Witness ==
    /\ pc = "estimate_heap_size"
    /\ ty.k = "option"
    /\ val.tag = 1
    /\ result > 0

\* The estimates that parts i.. of `vs` get on their own, added up, and the
\* static sizes of the types ts[i..], added up.
RECURSIVE SumSz(_, _, _), SumSt(_, _)
SumSz(ts, vs, i) ==
    IF i > Len(ts) THEN 0 ELSE Sz(ts[i], vs[i]) + SumSz(ts, vs, i + 1)
SumSt(ts, i) ==
    IF i > Len(ts) THEN 0 ELSE STATIC_HEAP_SIZE(ts[i]) + SumSt(ts, i + 1)

\* How many invocations of fn on the value at path p the call made.
Invocations(fn, p) ==
    Cardinality({j \in 1..Len(log) : log[j] = Ev(fn, p)})

\* C8: [T; N] is dynamic exactly when T is, and its static size is N times
\* that of T.  When T is not dynamic the estimate is N * T::STATIC_HEAP_SIZE
\* and the estimator of no element is invoked; when T is dynamic the
\* estimate is the sum of the estimates of the N elements, each visited once.
C8_ArrayLaw ==
    ty.k = "array" =>
        LET T == ty.a[1]
            N == ty.n
        IN  /\ IS_DYNAMIC(ty) <=> IS_DYNAMIC(T)
            /\ STATIC_HEAP_SIZE(ty) = STATIC_HEAP_SIZE(T) * N
            /\ (pc = "estimate_heap_size" /\ ~IS_DYNAMIC(T)) =>
                  /\ result = N * STATIC_HEAP_SIZE(T)
                  /\ log = <<Ev("estimate_heap_size", <<>>)>>
            /\ (pc = "estimate_heap_size" /\ IS_DYNAMIC(T)) =>
                  /\ result = SumSz([i \in 1..N |-> T], val.f, 1)
                  /\ \A i \in 1..N : Invocations("estimate_heap_size", <<i>>) = 1

\* An array of two heap-owning elements of a non-dynamic type has been
\* estimated without a visit to either.
C8_Witness ==
    /\ pc = "estimate_heap_size"
    /\ ty.k = "array"
    /\ ty.n = 2
    /\ ~IS_DYNAMIC(ty.a[1])
    /\ result = 2 * STATIC_HEAP_SIZE(ty.a[1])
    /\ result > 0
    /\ Len(log) = 1

C10_TupleLaw ==
    /\ ty.k = "tuple" =>
          /\ Len(ty.a) >= 2
          /\ IS_DYNAMIC(ty) <=> (\E i \in 1..Len(ty.a) : IS_DYNAMIC(ty.a[i]))
          /\ STATIC_HEAP_SIZE(ty) = SumSt(ty.a, 1)
          /\ pc = "estimate_heap_size" => result = SumSz(ty.a, val.f, 1)
    /\ ty.k = "tuple1" =>
          /\ IS_DYNAMIC(ty) <=> IS_DYNAMIC(ty.a[1])
          /\ STATIC_HEAP_SIZE(ty) = STATIC_HEAP_SIZE(ty.a[1])
          /\ pc = "estimate_heap_size" => result = Sz(ty.a[1], val.f[1])

\* A tuple of three parts, the last one alone dynamic and the first one
\* with a positive static size, has been estimated above its static size.
C10_Witness ==
    /\ pc = "estimate_heap_size"
    /\ ty.k = "tuple"
    /\ Len(ty.a) = 3
    /\ ~IS_DYNAMIC(ty.a[1])
    /\ STATIC_HEAP_SIZE(ty.a[1]) > 0
    /\ ~IS_DYNAMIC(ty.a[2])
    /\ IS_DYNAMIC(ty.a[3])
    /\ result > STATIC_HEAP_SIZE(ty)

----------------------------------------------------------------------------
\* The detailed report.

\* C11: the total of the report data_size_detailed(v) returns is
\* data_size(v); the total of a leaf is its size and the total of an
\* interior node the sum of the totals of its members; the report of a type
\* that keeps the provided method is the one leaf Size(estimate_heap_size(v)).
C11_TotalOfDetailedIsDataSize ==
    /\ pc = "total" => result = data_size(ty, val, <<>>).sz
    /\ pc = "total" =>
          result = IF tree.detailed
                   THEN SumTotal(tree.members, 1)
                   ELSE tree.size
    /\ (pc \in {"data_size_detailed", "total"} /\ ty \in LibTypes)
          => tree = Size(Sz(ty, val))

\* The report of a value that owns heap and whose type is dynamic with a
\* static size of 0 has been totalled.
C11_Witness ==
    /\ pc = "total"
    /\ ty \in LibTypes
    /\ IS_DYNAMIC(ty)
    /\ STATIC_HEAP_SIZE(ty) = 0
    /\ ~tree.detailed
    /\ result > 0

----------------------------------------------------------------------------
\* The leaf impls.

\* C12: the no-heap leaf types (the primitives, Duration, PhantomData) and
\* the references &T and &mut T, whatever T is and whatever heap the referent
\* owns, are not dynamic, have static size 0, and estimate every value at 0
\* without a call on any other value.
C12_NoHeapLeavesAndReferences ==
    ty.k \in {"prim", "phantom", "ref", "refmut"} =>
        /\ ~IS_DYNAMIC(ty)
        /\ STATIC_HEAP_SIZE(ty) = 0
        /\ pc \in {"estimate_heap_size", "data_size"} =>
              /\ result = 0
              /\ log = <<Ev("estimate_heap_size", <<>>)>>

\* A reference to a value that owns heap, of a type without an impl of
\* DataSize, has been estimated.
C12_Witness ==
    /\ pc = "estimate_heap_size"
    /\ ty = RefTo(Foreign)
    /\ val.f[1].tag > 0
    /\ result = 0

====
